---- MODULE Spec2Model ----
(***************************************************************************)
(* Model of the embedding and ranking code of src/app/embedding_utils.py:  *)
(* EmbeddingService.create_embedding, create_embeddings_batch,             *)
(* cosine_similarity, find_similar_texts and the function semantic_search, *)
(* and of the service of src/app/main.py: load_dataframe, the startup      *)
(* event and the handlers of /, /ask, /reload and /health over the globals *)
(* df, sdf and data_loaded.                                                *)
(*                                                                         *)
(* The embedding code is stateless: every operation is a function of its arguments   *)
(* and of what the embedding provider answers.  A behaviour of the model   *)
(* is one call: the initial state holds the call's arguments (request),    *)
(* the action of the called operation runs the whole operation and stores  *)
(* what it did (response): how it ended, what it returned and the provider *)
(* requests it issued, in order.                                           *)
(*                                                                         *)
(* A text is a sequence of one-character strings.  A vector is a tuple of  *)
(* integers; the vectors of the model have integer norms, so a cosine      *)
(* similarity is an exact rational <<numerator, denominator>> with a       *)
(* positive denominator, compared by cross-multiplication.                 *)
(***************************************************************************)
EXTENDS Integers, Sequences, FiniteSets, TLC

VARIABLES pc, request, response, df, sdf, data_loaded, loads

vars == <<pc, request, response, df, sdf, data_loaded, loads>>

\* The globals of src/app/main.py: df, sdf and data_loaded; loads counts the
\* loads so far (startup and reloads), and the DataFrame object returned by
\* load k carries the id k, which tells the objects apart.
globals == <<df, sdf, data_loaded, loads>>

None == [none |-> TRUE]

\* The globals when the module is loaded, before the startup event.
NotStarted ==
  /\ df = None
  /\ sdf = None
  /\ data_loaded = FALSE
  /\ loads = 0

(***************************************************************************)
(* Bounds of the model.                                                    *)
(***************************************************************************)
\* Longest list of texts handed to create_embeddings_batch.
MaxTexts == 6
\* Longest list of documents handed to semantic_search.
MaxDocs == 3
\* Longest list of candidate vectors handed to find_similar_texts.
MaxCand == 3
\* top_k ranges over -MaxTopK .. MaxTopK.
MaxTopK == 2
\* The provider serves between 0 and MaxOkCalls requests before it fails.
MaxOkCalls == 3
\* batch_size of create_embeddings_batch.  The source sets 2048; the model
\* scales it down so that lists shorter than, equal to and longer than one
\* batch are all within MaxTexts.
batch_size == 2
\* page_size of load_dataframe.  The source sets 1000; the model scales it
\* down so that tables of less than a page, of whole pages and of whole
\* pages and a rest are all within MaxRows.
page_size == 2
\* Most rows of the table israeli_government_decisions.
MaxRows == 7
\* The database serves between 0 and MaxOkRequests range requests of a load
\* before it fails.
MaxOkRequests == 5
\* Most loads (startup and reloads) of a run of the service.
MaxLoads == 3
\* Largest dimension of the vectors handed to cosine_similarity directly.
MaxDim == 3

(***************************************************************************)
(* Values.                                                                 *)
(***************************************************************************)
Min(a, b) == IF a <= b THEN a ELSE b
Max(a, b) == IF a >= b THEN a ELSE b

\* Texts given as a single text (create_embedding, the query of a search).
Texts ==
  { <<>>, <<" ">>, <<"a">>, <<" ", "a", " ">>, <<"b", " ">>, <<"a", " ", "b">> }

\* Texts given as entries of a list (create_embeddings_batch, documents).
DocTexts == { <<>>, <<" ">>, <<"a">>, <<" ", "b">> }

Models == { "text-embedding-3-small", "text-embedding-3-large" }

\* Candidate and query vectors of find_similar_texts.
Vecs == { <<0, 0>>, <<1, 0>>, <<0, 1>>, <<3, 4>>, <<-1, 0>> }

\* Thresholds as rationals: -2, 3/5, 7/10 (the default) and 2.
Thresholds == { <<-2, 1>>, <<3, 5>>, <<7, 10>>, <<2, 1>> }
SearchThresholds == { <<-2, 1>>, <<7, 10>> }

TopKs == (-MaxTopK) .. MaxTopK

SeqsUpTo(S, n) == UNION { [1..k -> S] : k \in 0..n }

\* n pairwise distinct texts "a", "aa", "aaa", ...: the text at index i has
\* length i.
DistinctTexts(n) == [i \in 1..n |-> [j \in 1..i |-> "a"]]

(***************************************************************************)
(* str.strip(): removes leading and trailing whitespace.                   *)
(***************************************************************************)
IsSpace(c) == c = " "

RECURSIVE lstrip(_)
lstrip(s) == IF s # <<>> /\ IsSpace(Head(s)) THEN lstrip(Tail(s)) ELSE s

RECURSIVE rstrip(_)
rstrip(s) ==
  IF s # <<>> /\ IsSpace(s[Len(s)]) THEN rstrip(SubSeq(s, 1, Len(s) - 1)) ELSE s

strip(s) == rstrip(lstrip(s))

(***************************************************************************)
(* The embedding provider (self.client.embeddings.create): one vector per  *)
(* input, in input order.  The vector of a text depends on the model and   *)
(* on the text.  The provider serves ok_calls requests and fails the next. *)
(***************************************************************************)
ProviderVector(model, text) ==
  IF model = "text-embedding-3-small"
  THEN CASE text = <<"a">> -> <<1, 0>>
         [] text = <<"b">> -> <<0, 1>>
         [] text = <<"a", " ", "b">> -> <<3, 4>>
         [] OTHER -> <<0, 0>>
  ELSE CASE text = <<"a">> -> <<3, 4>>
         [] text = <<"b">> -> <<4, 3>>
         [] text = <<"a", " ", "b">> -> <<0, 1>>
         [] OTHER -> <<0, 0>>

embeddings_create(model, input) ==
  [i \in 1..Len(input) |-> ProviderVector(model, input[i])]

\* What an operation hands back: outcome "ok" and the returned value, or the
\* exception it raised (then nothing is returned and result is <<>>).
Returned(value, calls) ==
  [outcome |-> "ok", result |-> value, calls |-> calls]

Raised(exception, calls) ==
  [outcome |-> exception, result |-> <<>>, calls |-> calls]

(***************************************************************************)
(* EmbeddingService.create_embedding(text).  The request carries the one   *)
(* text as the provider's input; the model records it as a one-entry       *)
(* input.  "ValueError" is the error of line 51 (the spec's                *)
(* InvalidInputError); "ProviderError" stands for whatever exception the   *)
(* provider client raised, which the except clause re-raises unchanged.    *)
(***************************************************************************)
create_embedding_unchecked(model, text, ok_calls) ==
  LET call == [model |-> model, input |-> <<strip(text)>>]
  IN  IF text = <<>> THEN Raised("ValueError", <<>>)
      ELSE IF ok_calls < 1 THEN Raised("ProviderError", <<call>>)
      ELSE Returned(embeddings_create(model, call.input)[1], <<call>>)

create_embedding(model, text, ok_calls) ==
  LET t == strip(text)
      call == [model |-> model, input |-> <<t>>]
  IN  IF t = <<>> THEN Raised("ValueError", <<>>)
      ELSE IF ok_calls < 1 THEN Raised("ProviderError", <<call>>)
      ELSE Returned(embeddings_create(model, call.input)[1], <<call>>)

(***************************************************************************)
(* EmbeddingService.create_embeddings_batch(texts).                        *)
(***************************************************************************)
\* [text.strip() for text in texts if text.strip()]
RECURSIVE keep_blank_texts(_)
keep_blank_texts(texts) ==
  IF texts = <<>> THEN <<>>
  ELSE IF Head(texts) # <<>>
       THEN <<strip(Head(texts))>> \o keep_blank_texts(Tail(texts))
       ELSE keep_blank_texts(Tail(texts))

RECURSIVE strip_nonempty(_)
strip_nonempty(texts) ==
  IF texts = <<>> THEN <<>>
  ELSE IF strip(Head(texts)) # <<>>
       THEN <<strip(Head(texts))>> \o strip_nonempty(Tail(texts))
       ELSE strip_nonempty(Tail(texts))

cleaned_texts(texts) == strip_nonempty(texts)

\* cleaned_texts[i:i + batch_size], i counted from 0 as in the source.
batch_short(cleaned, i) ==
  SubSeq(cleaned, i + 1, Min(i + batch_size - 1, Len(cleaned)))

batch(cleaned, i) ==
  SubSeq(cleaned, i + 1, Min(i + batch_size, Len(cleaned)))

\* A provider exception inside the loop: logged and re-raised; the vectors
\* collected so far are local to the call and are lost.
batch_failed_partial(all_embeddings, calls) == Returned(all_embeddings, calls)

batch_failed(all_embeddings, calls) == Raised("ProviderError", calls)

\* for i in range(0, len(cleaned_texts), batch_size): one provider request
\* per batch; ok_calls is the number of requests the provider still serves.
RECURSIVE batch_loop(_, _, _, _, _, _)
batch_loop(model, cleaned, i, all_embeddings, calls, ok_calls) ==
  IF i >= Len(cleaned) THEN Returned(all_embeddings, calls)
  ELSE LET call == [model |-> model, input |-> batch(cleaned, i)]
       IN  IF ok_calls < 1
           THEN batch_failed(all_embeddings, Append(calls, call))
           ELSE batch_loop(model, cleaned, i + batch_size,
                           all_embeddings \o embeddings_create(model, call.input),
                           Append(calls, call), ok_calls - 1)

create_embeddings_batch(model, texts, ok_calls) ==
  LET cleaned == cleaned_texts(texts)
  IN  IF cleaned = <<>> THEN Returned(<<>>, <<>>)
      ELSE batch_loop(model, cleaned, 0, <<>>, <<>>, ok_calls)

(***************************************************************************)
(* Calls of the two embedding operations.                                  *)
(***************************************************************************)
EmbedOneRequests ==
  [op : {"create_embedding"}, model : Models, text : Texts,
   ok_calls : 0..MaxOkCalls]

EmbedManyRequests ==
  [op : {"create_embeddings_batch"}, model : Models,
   texts : SeqsUpTo(DocTexts, MaxTexts), ok_calls : 0..MaxOkCalls]

NoResponse == [outcome |-> "pending", result |-> <<>>, calls |-> <<>>]

InitEmbed ==
  /\ pc = "call"
  /\ request \in EmbedOneRequests \cup EmbedManyRequests
  /\ response = NoResponse
  /\ NotStarted

CreateEmbedding ==
  /\ pc = "call"
  /\ request.op = "create_embedding"
  /\ response' = create_embedding(request.model, request.text, request.ok_calls)
  /\ pc' = "done"
  /\ UNCHANGED request
  /\ UNCHANGED globals

CreateEmbeddingsBatch ==
  /\ pc = "call"
  /\ request.op = "create_embeddings_batch"
  /\ response' =
       create_embeddings_batch(request.model, request.texts, request.ok_calls)
  /\ pc' = "done"
  /\ UNCHANGED request
  /\ UNCHANGED globals

NextEmbed == CreateEmbedding \/ CreateEmbeddingsBatch

SpecEmbed == InitEmbed /\ [][NextEmbed]_vars

(***************************************************************************)
(* EmbeddingService.cosine_similarity(embedding1, embedding2), for vectors *)
(* of equal dimension.  The value is the rational <<dot, norm1 * norm2>>;  *)
(* 0.0 is <<0, 1>>.                                                        *)
(***************************************************************************)
RECURSIVE dot(_, _)
dot(vec1, vec2) ==
  IF vec1 = <<>> THEN 0
  ELSE Head(vec1) * Head(vec2) + dot(Tail(vec1), Tail(vec2))

\* np.linalg.norm; exact for the vectors of the model, whose norms are
\* integers.
norm(vec) == CHOOSE n \in 0..dot(vec, vec) : n * n = dot(vec, vec)

\* Without the zero-norm guard the division is 0 / 0.
cosine_similarity_unguarded(embedding1, embedding2) ==
  <<dot(embedding1, embedding2), norm(embedding1) * norm(embedding2)>>

cosine_similarity(embedding1, embedding2) ==
  LET dot_product == dot(embedding1, embedding2)
      norm1 == norm(embedding1)
      norm2 == norm(embedding2)
  IN  IF norm1 = 0 \/ norm2 = 0 THEN <<0, 1>>
      ELSE <<dot_product, norm1 * norm2>>

\* Comparison of rationals with positive denominators.
Geq(a, b) == a[1] * b[2] >= b[1] * a[2]
Gt(a, b) == a[1] * b[2] > b[1] * a[2]
RatEq(a, b) == a[1] * b[2] = b[1] * a[2]

(***************************************************************************)
(* EmbeddingService.find_similar_texts.                                    *)
(***************************************************************************)
\* if similarity >= threshold
above_threshold(similarity, threshold) == Gt(similarity, threshold)

passes_threshold(similarity, threshold) == Geq(similarity, threshold)

\* The loop over enumerate(text_embeddings), i counted from 1.  texts[i]
\* past the end of texts raises IndexError.
RECURSIVE similarities_loop(_, _, _, _, _, _)
similarities_loop(query_embedding, text_embeddings, texts, threshold, i, similarities) ==
  IF i > Len(text_embeddings)
  THEN [outcome |-> "ok", similarities |-> similarities]
  ELSE LET similarity == cosine_similarity(query_embedding, text_embeddings[i])
       IN  IF passes_threshold(similarity, threshold)
           THEN IF i > Len(texts)
                THEN [outcome |-> "IndexError", similarities |-> similarities]
                ELSE similarities_loop(query_embedding, text_embeddings, texts,
                       threshold, i + 1,
                       Append(similarities, <<texts[i], similarity>>))
           ELSE similarities_loop(query_embedding, text_embeddings, texts,
                  threshold, i + 1, similarities)

\* similarities.sort(key=lambda x: x[1], reverse=True): list.sort is stable,
\* and with reverse=True entries of equal key keep their original order.  An
\* entry x that precedes e in the list stays ahead of e unless e's key is
\* strictly greater.
stays_ahead_strict(x, e) == Gt(x[2], e[2])

stays_ahead(x, e) == Geq(x[2], e[2])

RECURSIVE insert_sorted(_, _)
insert_sorted(sorted, e) ==
  IF sorted = <<>> THEN <<e>>
  ELSE IF stays_ahead(Head(sorted), e)
       THEN <<Head(sorted)>> \o insert_sorted(Tail(sorted), e)
       ELSE <<e>> \o sorted

RECURSIVE sort_desc_from(_, _)
sort_desc_from(sorted, rest) ==
  IF rest = <<>> THEN sorted
  ELSE sort_desc_from(insert_sorted(sorted, Head(rest)), Tail(rest))

sort_desc(similarities) == sort_desc_from(<<>>, similarities)

\* similarities[:top_k]: a negative top_k counts from the end of the list.
slice_to(similarities, top_k) ==
  IF top_k >= 0
  THEN SubSeq(similarities, 1, Min(top_k, Len(similarities)))
  ELSE SubSeq(similarities, 1, Max(Len(similarities) + top_k, 0))

\* included: the list similarities when the loop ends, before the sort.
find_similar_texts(query_embedding, text_embeddings, texts, top_k, threshold) ==
  LET loop == similarities_loop(query_embedding, text_embeddings, texts,
                                threshold, 1, <<>>)
  IN  IF loop.outcome # "ok"
      THEN [outcome |-> loop.outcome, result |-> <<>>, included |-> <<>>]
      ELSE [outcome |-> "ok",
            result |-> slice_to(sort_desc(loop.similarities), top_k),
            included |-> loop.similarities]

RankRequests ==
  [op : {"find_similar_texts"}, query_embedding : Vecs,
   text_embeddings : SeqsUpTo(Vecs, MaxCand),
   texts : { DistinctTexts(n) : n \in 0..(MaxCand + 1) },
   top_k : TopKs, threshold : Thresholds]

InitRank ==
  /\ pc = "call"
  /\ request \in RankRequests
  /\ response = NoResponse
  /\ NotStarted

FindSimilarTexts ==
  /\ pc = "call"
  /\ request.op = "find_similar_texts"
  /\ response' =
       find_similar_texts(request.query_embedding, request.text_embeddings,
                          request.texts, request.top_k, request.threshold)
  /\ pc' = "done"
  /\ UNCHANGED request
  /\ UNCHANGED globals

NextRank == FindSimilarTexts

SpecRank == InitRank /\ [][NextRank]_vars

(***************************************************************************)
(* semantic_search(query, documents, top_k, threshold, model).  api_key    *)
(* is whether OPENAI_API_KEY is set when the service is constructed.       *)
(* ranked: find_similar_texts was invoked.                                 *)
(***************************************************************************)
Ended(r, calls, ranked) ==
  [outcome |-> r.outcome, result |-> r.result, calls |-> calls,
   ranked |-> ranked]

semantic_search_swallowing(query, documents, top_k, threshold, model, api_key, ok_calls) ==
  IF ~api_key THEN Ended(Raised("ValueError", <<>>), <<>>, FALSE)
  ELSE
    LET query_embedding == create_embedding(model, query, ok_calls)
        doc_embeddings ==
          create_embeddings_batch(model, documents,
                                  ok_calls - Len(query_embedding.calls))
        calls == query_embedding.calls \o doc_embeddings.calls
    IN  IF query_embedding.outcome # "ok"
        THEN Ended(query_embedding, query_embedding.calls, FALSE)
        ELSE IF doc_embeddings.outcome # "ok"
        THEN Ended(Returned(<<>>, calls), calls, FALSE)
        ELSE Ended(find_similar_texts(query_embedding.result,
                     doc_embeddings.result, documents, top_k, threshold),
                   calls, TRUE)

semantic_search(query, documents, top_k, threshold, model, api_key, ok_calls) ==
  IF ~api_key THEN Ended(Raised("ValueError", <<>>), <<>>, FALSE)
  ELSE
    LET query_embedding == create_embedding(model, query, ok_calls)
        doc_embeddings ==
          create_embeddings_batch(model, documents,
                                  ok_calls - Len(query_embedding.calls))
        calls == query_embedding.calls \o doc_embeddings.calls
    IN  IF query_embedding.outcome # "ok"
        THEN Ended(query_embedding, query_embedding.calls, FALSE)
        ELSE IF doc_embeddings.outcome # "ok"
        THEN Ended(doc_embeddings, calls, FALSE)
        ELSE Ended(find_similar_texts(query_embedding.result,
                     doc_embeddings.result, documents, top_k, threshold),
                   calls, TRUE)

\* top_k of a search: negative, one, and the default 5.
SearchTopKs == { -1, 1, 5 }

SearchRequests ==
  [op : {"semantic_search"}, query : Texts,
   documents : SeqsUpTo(DocTexts, MaxDocs), top_k : SearchTopKs,
   threshold : SearchThresholds, model : Models, api_key : BOOLEAN,
   ok_calls : 0..MaxOkCalls]

InitSearch ==
  /\ pc = "call"
  /\ request \in SearchRequests
  /\ response = NoResponse
  /\ NotStarted

SemanticSearch ==
  /\ pc = "call"
  /\ request.op = "semantic_search"
  /\ response' =
       semantic_search(request.query, request.documents, request.top_k,
                       request.threshold, request.model, request.api_key,
                       request.ok_calls)
  /\ pc' = "done"
  /\ UNCHANGED request
  /\ UNCHANGED globals

NextSearch == SemanticSearch

SpecSearch == InitSearch /\ [][NextSearch]_vars

(***************************************************************************)
(* Calls of cosine_similarity with two vectors of the same dimension, from *)
(* 0 to MaxDim, and of find_similar_texts, which scores every candidate    *)
(* with it.  The vectors are those over Components whose norm is an        *)
(* integer.                                                                *)
(***************************************************************************)
Components == { -1, 0, 3, 4 }

VectorsOfDim(d) ==
  { v \in [1..d -> Components] : \E n \in 0..dot(v, v) : n * n = dot(v, v) }

CosineRequests ==
  UNION { [op : {"cosine_similarity"}, embedding1 : VectorsOfDim(d),
           embedding2 : VectorsOfDim(d)] : d \in 0..MaxDim }

InitScore ==
  /\ pc = "call"
  /\ request \in CosineRequests \cup RankRequests
  /\ response = NoResponse
  /\ NotStarted

CosineSimilarity ==
  /\ pc = "call"
  /\ request.op = "cosine_similarity"
  /\ response' =
       [outcome |-> "ok",
        result |-> cosine_similarity(request.embedding1, request.embedding2)]
  /\ pc' = "done"
  /\ UNCHANGED request
  /\ UNCHANGED globals

NextScore == CosineSimilarity \/ FindSimilarTexts

SpecScore == InitScore /\ [][NextScore]_vars

(***************************************************************************)
(* load_dataframe() of src/app/main.py.  The table is the sequence of its  *)
(* rows; it does not change during a load.  credentials: SUPABASE_URL and  *)
(* SUPABASE_SERVICE_ROLE_KEY are set.  The database serves ok_requests     *)
(* range requests and fails the next.  Every exception inside the function *)
(* is raised again as HTTPException(500).                                  *)
(***************************************************************************)
Table(n) == [i \in 1..n |-> i]

\* .range(lo, hi).execute(): the rows at the 0-based offsets lo..hi, both
\* included, that the table has.
range_execute(table, lo, hi) == SubSeq(table, lo + 1, Min(hi + 1, Len(table)))

\* offset += page_size
next_offset_overlapping(offset) == offset + page_size - 1

next_offset(offset) == offset + page_size

Loaded(all_data, requests) ==
  [outcome |-> "ok", rows |-> all_data, requests |-> requests]

LoadFailed(requests) ==
  [outcome |-> "HTTPException", rows |-> <<>>, requests |-> requests]

\* while True: one range request per iteration.
RECURSIVE pagination_loop(_, _, _, _, _)
pagination_loop(table, offset, all_data, requests, ok_requests) ==
  LET issued == Append(requests, <<offset, offset + page_size - 1>>)
      data == range_execute(table, offset, offset + page_size - 1)
  IN  IF ok_requests < 1 THEN LoadFailed(issued)
      ELSE IF data = <<>> THEN Loaded(all_data, issued)
      ELSE IF Len(data) < page_size THEN Loaded(all_data \o data, issued)
      ELSE pagination_loop(table, next_offset(offset), all_data \o data,
                           issued, ok_requests - 1)

\* rows: the rows of the returned DataFrame (pd.DataFrame() when all_data is
\* empty); requests: the ranges requested, in order.
load_dataframe(table, credentials, ok_requests) ==
  IF ~credentials THEN LoadFailed(<<>>)
  ELSE pagination_loop(table, 0, <<>>, <<>>, ok_requests)

LoadRequests ==
  [op : {"load_dataframe"}, table : { Table(n) : n \in 0..MaxRows },
   credentials : BOOLEAN, ok_requests : 0..MaxOkRequests]

InitLoad ==
  /\ pc = "call"
  /\ request \in LoadRequests
  /\ response = NoResponse
  /\ NotStarted

LoadDataframe ==
  /\ pc = "call"
  /\ request.op = "load_dataframe"
  /\ response' =
       load_dataframe(request.table, request.credentials, request.ok_requests)
  /\ pc' = "done"
  /\ UNCHANGED request
  /\ UNCHANGED globals

NextLoad == LoadDataframe

SpecLoad == InitLoad /\ [][NextLoad]_vars

(***************************************************************************)
(* The service of src/app/main.py.  The handlers are coroutines without an *)
(* await, so each runs to its end before another starts: one action each.  *)
(* pc is "init" until the startup event has run, then "serving"; request   *)
(* and response are the last request handled and the answer to it.         *)
(* A DataFrame is [id, rows]; a SmartDataframe is [df], the DataFrame it   *)
(* was built from.  init_ok: initialize_pandasai returns (OPENAI_API_KEY   *)
(* is set and the SmartDataframe is constructed); otherwise it raises.     *)
(***************************************************************************)
Globals(d, s, loaded) == [df |-> d, sdf |-> s, data_loaded |-> loaded]

DataFrame(id, rows) == [id |-> id, rows |-> rows]

\* initialize_pandasai(df) when it returns.
initialize_pandasai(d) == [df |-> d]

\* startup_event(): load is what load_dataframe() did.
startup_event(g, id, load, init_ok) ==
  IF load.outcome # "ok" THEN Globals(g.df, g.sdf, FALSE)
  ELSE LET new == DataFrame(id, load.rows)
       IN  IF new.rows # <<>>
           THEN IF init_ok
                THEN Globals(new, initialize_pandasai(new), TRUE)
                ELSE Globals(new, g.sdf, FALSE)
           ELSE Globals(new, g.sdf, FALSE)

\* reload_data(): the globals it leaves and the HTTP answer.
reload_data_keeping_flag(g, id, load, init_ok) ==
  IF load.outcome # "ok"
  THEN [globals |-> g, status |-> 500, body |-> [detail |-> "Database error"]]
  ELSE LET new == DataFrame(id, load.rows)
       IN  IF new.rows # <<>>
           THEN IF init_ok
                THEN [globals |-> Globals(new, initialize_pandasai(new), TRUE),
                      status |-> 200,
                      body |-> [success |-> TRUE, records_count |-> Len(new.rows)]]
                ELSE [globals |-> Globals(new, g.sdf, g.data_loaded),
                      status |-> 500, body |-> [detail |-> "ValueError"]]
           ELSE [globals |-> Globals(new, g.sdf, FALSE), status |-> 200,
                 body |-> [success |-> FALSE, records_count |-> 0]]

reload_data(g, id, load, init_ok) ==
  IF load.outcome # "ok"
  THEN [globals |-> Globals(g.df, g.sdf, FALSE), status |-> 500,
        body |-> [detail |-> "Database error"]]
  ELSE LET new == DataFrame(id, load.rows)
       IN  IF new.rows # <<>>
           THEN IF init_ok
                THEN [globals |-> Globals(new, initialize_pandasai(new), TRUE),
                      status |-> 200,
                      body |-> [success |-> TRUE, records_count |-> Len(new.rows)]]
                ELSE [globals |-> Globals(new, g.sdf, FALSE), status |-> 500,
                      body |-> [detail |-> "ValueError"]]
           ELSE [globals |-> Globals(new, g.sdf, FALSE), status |-> 200,
                 body |-> [success |-> FALSE, records_count |-> 0]]

\* root(): GET /.
root(g) ==
  [status |-> 200,
   body |-> [status |-> "healthy", service |-> "Government AI API",
             data_loaded |-> g.data_loaded]]

\* ask_question(): POST /ask.  engine is what sdf.chat does when called:
\* "answer", "none" (it returns None) or "raises".  chat: sdf.chat was
\* called.  The HTTPException(503) is raised inside the try and caught by
\* its except clause, like an exception of sdf.chat.
ask_question_unwrapped(g, engine) ==
  IF g.sdf = None \/ ~g.data_loaded
  THEN [status |-> 503, chat |-> FALSE,
        body |-> [detail |-> "Service not ready. Data not loaded."]]
  ELSE IF engine = "raises"
  THEN [status |-> 500, chat |-> TRUE, body |-> [detail |-> "engine error"]]
  ELSE [status |-> 200, chat |-> TRUE,
        body |-> [answer |-> IF engine = "none" THEN "no answer found" ELSE "answer",
                  success |-> TRUE, error |-> None]]

ask_question(g, engine) ==
  IF g.sdf = None \/ ~g.data_loaded
  THEN [status |-> 200, chat |-> FALSE,
        body |-> [answer |-> "", success |-> FALSE,
                  error |-> [message |-> "503: Service not ready. Data not loaded."]]]
  ELSE IF engine = "raises"
  THEN [status |-> 200, chat |-> TRUE,
        body |-> [answer |-> "", success |-> FALSE,
                  error |-> [message |-> "engine error"]]]
  ELSE [status |-> 200, chat |-> TRUE,
        body |-> [answer |-> IF engine = "none" THEN "no answer found" ELSE "answer",
                  success |-> TRUE, error |-> None]]

\* health_check(): GET /health.  db_ok: the test query succeeds.
health_check(g, db_ok) ==
  LET database == IF db_ok THEN "healthy" ELSE "unhealthy"
      ai_service == IF g.sdf # None THEN "healthy" ELSE "unknown"
      all_healthy == database = "healthy" /\ ai_service = "healthy"
  IN  [status |-> 200,
       body |-> [status |-> IF all_healthy THEN "healthy" ELSE "degraded",
                 details |-> [api |-> "healthy", database |-> database,
                              ai_service |-> ai_service,
                              data_loaded |-> g.sdf # None]]]

CurrentGlobals == Globals(df, sdf, data_loaded)

InitApp ==
  /\ pc = "init"
  /\ request = [op |-> "none"]
  /\ response = NoResponse
  /\ NotStarted

Startup ==
  /\ pc = "init"
  /\ \E n \in 0..MaxRows, credentials \in BOOLEAN,
        ok_requests \in 0..MaxOkRequests, init_ok \in BOOLEAN :
       LET load == load_dataframe(Table(n), credentials, ok_requests)
           g == startup_event(CurrentGlobals, loads + 1, load, init_ok)
       IN  /\ df' = g.df
           /\ sdf' = g.sdf
           /\ data_loaded' = g.data_loaded
  /\ loads' = loads + 1
  /\ pc' = "serving"
  /\ request' = [op |-> "startup"]
  /\ response' = NoResponse

Reload ==
  /\ pc = "serving"
  /\ loads < MaxLoads
  /\ \E n \in 0..MaxRows, credentials \in BOOLEAN,
        ok_requests \in 0..MaxOkRequests, init_ok \in BOOLEAN :
       LET load == load_dataframe(Table(n), credentials, ok_requests)
           r == reload_data(CurrentGlobals, loads + 1, load, init_ok)
       IN  /\ df' = r.globals.df
           /\ sdf' = r.globals.sdf
           /\ data_loaded' = r.globals.data_loaded
           /\ response' = [status |-> r.status, body |-> r.body]
  /\ loads' = loads + 1
  /\ request' = [op |-> "reload"]
  /\ UNCHANGED pc

Root ==
  /\ pc = "serving"
  /\ request' = [op |-> "root"]
  /\ response' = root(CurrentGlobals)
  /\ UNCHANGED <<pc, globals>>

Ask ==
  /\ pc = "serving"
  /\ \E engine \in {"answer", "none", "raises"} :
       /\ request' = [op |-> "ask", engine |-> engine]
       /\ response' = ask_question(CurrentGlobals, engine)
  /\ UNCHANGED <<pc, globals>>

HealthCheck ==
  /\ pc = "serving"
  /\ \E db_ok \in BOOLEAN :
       /\ request' = [op |-> "health", db_ok |-> db_ok]
       /\ response' = health_check(CurrentGlobals, db_ok)
  /\ UNCHANGED <<pc, globals>>

NextApp == Startup \/ Reload \/ Root \/ Ask \/ HealthCheck

SpecApp == InitApp /\ [][NextApp]_vars

(***************************************************************************)
(* Properties.                                                             *)
(***************************************************************************)
Done(op) == pc = "done" /\ request.op = op

CeilDiv(n, b) == (n + b - 1) \div b

NonBlank(text) == strip(text) # <<>>

\* The texts of a list that are non-empty after trimming, trimmed, in order.
TrimmedNonBlank(texts) ==
  SelectSeq([i \in 1..Len(texts) |-> strip(texts[i])], LAMBDA t : t # <<>>)

RECURSIVE Concat(_)
Concat(seqs) == IF seqs = <<>> THEN <<>> ELSE Head(seqs) \o Concat(Tail(seqs))

\* The inputs of a sequence of provider requests, one after the other.
Inputs(calls) == Concat([k \in 1..Len(calls) |-> calls[k].input])

\* Provider requests create_embeddings_batch needs for a list of texts.
ChunksNeeded(texts) == CeilDiv(Len(TrimmedNonBlank(texts)), batch_size)

\* C1: every pair (text, score) a search returns has a text that is one of
\* the trimmed, non-empty documents that were embedded, and its score is the
\* similarity of the query vector and the vector produced for that text; a
\* document that trims to empty never appears.
C1_SearchPairsMatchEmbeddedTexts ==
  (Done("semantic_search") /\ response.outcome = "ok") =>
    \A k \in 1..Len(response.result) :
      LET text == response.result[k][1]
          score == response.result[k][2]
      IN  /\ text # <<>>
          /\ strip(text) = text
          /\ \E i \in 1..Len(request.documents) :
               strip(request.documents[i]) = text
          /\ RatEq(score,
                   cosine_similarity(
                     ProviderVector(request.model, strip(request.query)),
                     ProviderVector(request.model, text)))

\* C2: find_similar_texts called with vectors and texts of different lengths
\* fails with an error (the spec's InvariantViolationError; the one error
\* the code can raise here is the IndexError of texts[i]) and returns no
\* result, whatever the length difference, the scores, threshold and top_k.
C2_LengthMismatchRejected ==
  (Done("find_similar_texts")
     /\ Len(request.text_embeddings) # Len(request.texts)) =>
    /\ response.outcome # "ok"
    /\ response.result = <<>>

\* C3: find_similar_texts returns the first min(top_k, number of included
\* candidates) entries of the sorted included list when top_k > 0, and the
\* empty sequence when top_k <= 0.
C3_AtMostTopK ==
  (Done("find_similar_texts")
     /\ Len(request.text_embeddings) = Len(request.texts)) =>
    LET sorted == sort_desc(response.included)
    IN  IF request.top_k > 0
        THEN response.result =
               SubSeq(sorted, 1, Min(request.top_k, Len(sorted)))
        ELSE response.result = <<>>

\* The index of a returned text among the candidates (the texts of a rank
\* request are pairwise distinct).
CandidateIndex(text) ==
  CHOOSE i \in 1..Len(request.texts) : request.texts[i] = text

\* C4: the output of find_similar_texts is ordered by score descending, and
\* entries of equal score appear in the order of their candidate indices.
C4_SortedDescendingStable ==
  (Done("find_similar_texts")
     /\ Len(request.text_embeddings) = Len(request.texts)) =>
    \A i, j \in 1..Len(response.result) :
      i < j =>
        /\ Geq(response.result[i][2], response.result[j][2])
        /\ RatEq(response.result[i][2], response.result[j][2]) =>
             CandidateIndex(response.result[i][1])
               < CandidateIndex(response.result[j][1])

C4_Witness ==
  /\ Done("find_similar_texts")
  /\ Len(request.text_embeddings) = Len(request.texts)
  /\ Len(response.result) >= 2
  /\ RatEq(response.result[1][2], response.result[2][2])
  /\ request.text_embeddings[CandidateIndex(response.result[1][1])]
       # request.text_embeddings[CandidateIndex(response.result[2][1])]

\* The candidates whose similarity to the query is at least the threshold.
AtLeastThreshold ==
  { i \in 1..Len(request.text_embeddings) :
      Geq(cosine_similarity(request.query_embedding,
                            request.text_embeddings[i]),
          request.threshold) }

\* C5: for every threshold, find_similar_texts raises no error, every
\* returned score is >= threshold, and before truncation the included
\* entries are exactly the candidates i with score >= threshold, each paired
\* with texts[i].
C5_ThresholdFilter ==
  (Done("find_similar_texts")
     /\ Len(request.text_embeddings) = Len(request.texts)) =>
    /\ response.outcome = "ok"
    /\ \A k \in 1..Len(response.result) :
         Geq(response.result[k][2], request.threshold)
    /\ { response.included[k] : k \in 1..Len(response.included) } =
         { <<request.texts[i],
             cosine_similarity(request.query_embedding,
                               request.text_embeddings[i])>> :
             i \in AtLeastThreshold }
    /\ Len(response.included) = Cardinality(AtLeastThreshold)

\* A threshold equal to a candidate's score keeps the candidate, and a
\* candidate below it is left out.
C5_Witness ==
  /\ Done("find_similar_texts")
  /\ Len(request.text_embeddings) = Len(request.texts)
  /\ \E k \in 1..Len(response.result) :
       RatEq(response.result[k][2], request.threshold)
  /\ Len(response.included) < Len(request.text_embeddings)

\* C6: create_embeddings_batch given N texts, all non-empty after trimming,
\* and a provider that serves every request, issues exactly ceil(N / B)
\* requests, each with 1 to B trimmed texts, together the trimmed texts in
\* input order, and returns N vectors, vector i the provider's for text i.
C6_BatchChunks ==
  (Done("create_embeddings_batch")
     /\ \A i \in 1..Len(request.texts) : NonBlank(request.texts[i])
     /\ request.ok_calls >= CeilDiv(Len(request.texts), batch_size)) =>
    /\ response.outcome = "ok"
    /\ Len(response.calls) = CeilDiv(Len(request.texts), batch_size)
    /\ \A k \in 1..Len(response.calls) :
         /\ Len(response.calls[k].input) \in 1..batch_size
         /\ response.calls[k].model = request.model
    /\ Inputs(response.calls) =
         [i \in 1..Len(request.texts) |-> strip(request.texts[i])]
    /\ response.result =
         [i \in 1..Len(request.texts) |->
            ProviderVector(request.model, strip(request.texts[i]))]

\* More texts than one batch, not a multiple of the batch size.
C6_Witness ==
  /\ Done("create_embeddings_batch")
  /\ \A i \in 1..Len(request.texts) : NonBlank(request.texts[i])
  /\ Len(request.texts) > batch_size
  /\ Len(request.texts) % batch_size # 0
  /\ response.outcome = "ok"
  /\ Len(response.calls) >= 2
  /\ \E i \in 1..Len(request.texts) : request.texts[i] # strip(request.texts[i])

\* C7: when a chunk's provider request fails, create_embeddings_batch ends
\* with that failure and returns no vectors; the failed request is the last
\* one issued: the requests are the chunks up to the failed one, each once.
C7_BatchFailureAborts ==
  (Done("create_embeddings_batch")
     /\ request.ok_calls < ChunksNeeded(request.texts)) =>
    /\ response.outcome = "ProviderError"
    /\ response.result = <<>>
    /\ Len(response.calls) = request.ok_calls + 1
    /\ Inputs(response.calls) =
         SubSeq(TrimmedNonBlank(request.texts), 1,
                Min((request.ok_calls + 1) * batch_size,
                    Len(TrimmedNonBlank(request.texts))))

\* The second chunk fails after the first one completed, with a chunk left.
C7_Witness ==
  /\ Done("create_embeddings_batch")
  /\ response.outcome = "ProviderError"
  /\ request.ok_calls >= 1
  /\ Len(response.calls) = request.ok_calls + 1

\* C8: create_embedding fails with ValueError (the spec's InvalidInputError)
\* and issues no provider request when the text is empty after trimming; for
\* every other text it issues exactly one request with the one trimmed text
\* and, when the provider serves it, returns that request's vector.
C8_EmbedOne ==
  Done("create_embedding") =>
    IF strip(request.text) = <<>>
    THEN /\ response.outcome = "ValueError"
         /\ response.calls = <<>>
         /\ response.result = <<>>
    ELSE /\ response.calls =
              << [model |-> request.model, input |-> <<strip(request.text)>>] >>
         /\ IF request.ok_calls >= 1
            THEN /\ response.outcome = "ok"
                 /\ response.result =
                      ProviderVector(request.model, strip(request.text))
            ELSE /\ response.outcome = "ProviderError"
                 /\ response.result = <<>>

C8_Witness ==
  /\ Done("create_embedding")
  /\ request.text = <<" ">>
  /\ response.outcome = "ValueError"
  /\ response.calls = <<>>

\* C9: create_embeddings_batch given a list whose texts are all empty or
\* whitespace-only (the empty list included) returns the empty sequence,
\* raises no error and issues no provider request; no request it ever issues
\* has an empty input list.
C9_AllBlankBatch ==
  Done("create_embeddings_batch") =>
    /\ (\A i \in 1..Len(request.texts) : ~NonBlank(request.texts[i])) =>
         /\ response.outcome = "ok"
         /\ response.result = <<>>
         /\ response.calls = <<>>
    /\ \A k \in 1..Len(response.calls) : response.calls[k].input # <<>>

C9_Witness ==
  /\ Done("create_embeddings_batch")
  /\ Len(request.texts) >= 2
  /\ \E i \in 1..Len(request.texts) : request.texts[i] = <<" ">>
  /\ \A i \in 1..Len(request.texts) : ~NonBlank(request.texts[i])
  /\ response.outcome = "ok"
  /\ response.calls = <<>>

\* C10: semantic_search invokes find_similar_texts and returns its result
\* only when the query embedding and the document embedding both completed;
\* when the query is empty after trimming, or the provider fails on the query
\* request or on a document chunk, the search ends with that failure, does
\* not invoke find_similar_texts and returns nothing.
C10_SearchPropagatesFailure ==
  Done("semantic_search") =>
    LET needed == 1 + ChunksNeeded(request.documents)
        both_ok == /\ request.api_key
                   /\ NonBlank(request.query)
                   /\ request.ok_calls >= needed
    IN  /\ response.ranked <=> both_ok
        /\ response.outcome = "ok" => response.ranked
        /\ (request.api_key /\ ~NonBlank(request.query)) =>
             /\ response.outcome = "ValueError"
             /\ response.calls = <<>>
        /\ (request.api_key /\ NonBlank(request.query)
              /\ request.ok_calls < needed) =>
             /\ response.outcome = "ProviderError"
             /\ Len(response.calls) = request.ok_calls + 1
        /\ ~response.ranked => response.result = <<>>

\* The provider fails on a document chunk after the query was embedded.
C10_Witness ==
  /\ Done("semantic_search")
  /\ response.outcome = "ProviderError"
  /\ Len(response.calls) >= 2
  /\ ~response.ranked

AllZero(vec) == \A i \in 1..Len(vec) : vec[i] = 0

\* C11: cosine_similarity returns exactly 0.0, without an error, whenever
\* either of two vectors of equal dimension is all-zero, for every dimension;
\* so find_similar_texts scores 0.0 every candidate whose vector is all-zero,
\* and every candidate when the query vector is all-zero: such a candidate is
\* included exactly when 0.0 >= threshold, and then with the score 0.0.
C11_ZeroVectorScoresZero ==
  /\ (Done("cosine_similarity")
        /\ (AllZero(request.embedding1) \/ AllZero(request.embedding2))) =>
       /\ response.outcome = "ok"
       /\ response.result = <<0, 1>>
  /\ (Done("find_similar_texts")
        /\ Len(request.text_embeddings) = Len(request.texts)) =>
       \A i \in 1..Len(request.text_embeddings) :
         (AllZero(request.query_embedding)
            \/ AllZero(request.text_embeddings[i])) =>
           IF request.threshold[1] <= 0
           THEN \E k \in 1..Len(response.included) :
                  response.included[k] = <<request.texts[i], <<0, 1>> >>
           ELSE \A k \in 1..Len(response.included) :
                  response.included[k][1] # request.texts[i]

\* One vector all-zero, the other not, in the largest dimension.
C11_Witness ==
  /\ Done("cosine_similarity")
  /\ Len(request.embedding1) = MaxDim
  /\ AllZero(request.embedding1)
  /\ ~AllZero(request.embedding2)
  /\ response.result = <<0, 1>>

\* C15: for a table of N rows and page size P, the pagination loop of
\* load_dataframe, when the database serves every request, ends after
\* exactly floor(N / P) + 1 range requests, request k for the range
\* [k * P, k * P + P - 1] counting k from 0, and the result holds each of the
\* N rows once, in table order (no rows when N = 0).
C15_PaginationLoadsAllRows ==
  (Done("load_dataframe") /\ request.credentials
     /\ request.ok_requests >= Len(request.table) \div page_size + 1) =>
    /\ response.outcome = "ok"
    /\ Len(response.requests) = Len(request.table) \div page_size + 1
    /\ \A k \in 1..Len(response.requests) :
         response.requests[k] =
           <<(k - 1) * page_size, (k - 1) * page_size + page_size - 1>>
    /\ response.rows = request.table

\* A table of two whole pages: the third request returns nothing.
C15_Witness ==
  /\ Done("load_dataframe")
  /\ Len(request.table) = 2 * page_size
  /\ response.outcome = "ok"
  /\ Len(response.requests) = 3
  /\ response.rows = request.table

\* C12: after the startup and any sequence of reloads, whenever data_loaded
\* is true, sdf is not None and was built from the current df, and that df
\* is not empty.
C12_LoadedMeansEngineOfCurrentData ==
  data_loaded =>
    /\ df # None
    /\ sdf # None
    /\ sdf.df = df
    /\ df.rows # <<>>

\* Loaded again after a reload that failed or found nothing.
C12_Witness ==
  /\ pc = "serving"
  /\ request.op = "reload"
  /\ data_loaded
  /\ loads = 3
  /\ df.id = 3

\* C13: the data_loaded that GET /health reports equals the data_loaded that
\* GET / reports, and /health reports ai_service healthy only when POST /ask
\* would be served (it would call the engine).
C13_HealthAgreesWithRoot ==
  \A db_ok \in BOOLEAN :
    LET health == health_check(CurrentGlobals, db_ok).body.details
    IN  /\ health.data_loaded = root(CurrentGlobals).body.data_loaded
        /\ health.ai_service = "healthy" =>
             ask_question(CurrentGlobals, "answer").chat

\* C14: a step that handles POST /ask calls the engine exactly when sdf is
\* not None and data_loaded is true at the call, and returns success = true
\* only then; when the service is not ready or the engine raises, it answers
\* normally (status 200) with success = false, an empty answer and an error
\* that is not None; and it leaves df, sdf and data_loaded as they were.
C14_AskNeverFailsNorWrites ==
  [][ (pc = "serving" /\ request'.op = "ask") =>
        LET ready == sdf # None /\ data_loaded
        IN  /\ UNCHANGED <<df, sdf, data_loaded>>
            /\ response'.status = 200
            /\ response'.chat <=> ready
            /\ response'.body.success => ready
            /\ (~ready \/ request'.engine = "raises") =>
                 /\ response'.body.success = FALSE
                 /\ response'.body.answer = ""
                 /\ response'.body.error # None
            /\ (ready /\ request'.engine # "raises") =>
                 response'.body.success = TRUE ]_vars

\* An engine is there, but the last load found nothing or failed: /ask is
\* refused with a normal answer.
C14_Witness ==
  /\ pc = "serving"
  /\ request.op = "ask"
  /\ sdf # None
  /\ ~data_loaded
  /\ response.status = 200
  /\ response.body.success = FALSE
  /\ ~response.chat

====
